---- MODULE Spec2Model ----
(***************************************************************************)
(* Model of vllm/reasoning/robobrain_reasoning_parser.py:                  *)
(* RoboBrainReasoningParser, the text-marker reasoning parser for          *)
(* RoboBrain2.0.  Texts are sequences of one-character strings, so that a  *)
(* delimiter can be cut at any character and found by searching.           *)
(***************************************************************************)
EXTENDS Integers, Sequences, FiniteSets, TLC

VARIABLES current_state, buffer, thinking_complete,
          current_text, delta_text, ret, reasoning_out, content_out, n_calls,
          phase_before,
          model_output, result, pc,
          input_ids, reasoning_end, content_ids, ids_pc,
          shape

vars == <<current_state, buffer, thinking_complete,
          current_text, delta_text, ret, reasoning_out, content_out, n_calls,
          phase_before,
          model_output, result, pc,
          input_ids, reasoning_end, content_ids, ids_pc,
          shape>>

streamVars == <<current_state, buffer, thinking_complete,
                current_text, delta_text, ret, reasoning_out, content_out, n_calls,
                phase_before>>

fullVars == <<model_output, result, pc>>

idsVars == <<input_ids, reasoning_end, content_ids, ids_pc>>

----------------------------------------------------------------------------
(* Bounds *)

\* number of streaming calls made on one instance
MaxCalls == 4

\* number of pieces a complete text is assembled from
MaxTextAtoms == 5

\* number of token ids handed to a token-level helper
MaxIds == 4

----------------------------------------------------------------------------
(* The delimiter vocabulary (class attributes) *)

think_start == <<"<", "t", "h", "i", "n", "k", ">">>

think_end == <<"<", "/", "t", "h", "i", "n", "k", ">">>

answer_start == <<"<", "a", "n", "s", "w", "e", "r", ">">>

answer_end == <<"<", "/", "a", "n", "s", "w", "e", "r", ">">>

\* Python's None; no text contains the element "None" (texts hold characters)
None == <<"None">>

----------------------------------------------------------------------------
(* Python string primitives, computed as str computes them *)

RECURSIVE FindFrom(_, _, _)
FindFrom(s, sub, i) ==
    IF i + Len(sub) > Len(s) THEN -1
    ELSE IF SubSeq(s, i + 1, i + Len(sub)) = sub THEN i
    ELSE FindFrom(s, sub, i + 1)

\* s.find(sub): 0-based index of the first occurrence, -1 when there is none
Find(s, sub) == FindFrom(s, sub, 0)

RECURSIVE RFindFrom(_, _, _)
RFindFrom(s, sub, i) ==
    IF i < 0 THEN -1
    ELSE IF SubSeq(s, i + 1, i + Len(sub)) = sub THEN i
    ELSE RFindFrom(s, sub, i - 1)

\* s.rfind(sub): 0-based index of the last occurrence, -1 when there is none
RFind(s, sub) == RFindFrom(s, sub, Len(s) - Len(sub))

\* sub in s
In(sub, s) == Find(s, sub) # -1

\* a slice bound as Python normalises it
SliceIndex(s, i) ==
    IF i < 0 THEN (IF i + Len(s) < 0 THEN 0 ELSE i + Len(s))
    ELSE IF i > Len(s) THEN Len(s) ELSE i

\* s[a:b]
Slice(s, a, b) ==
    LET lo == SliceIndex(s, a)
        hi == SliceIndex(s, b)
    IN  IF lo < hi THEN SubSeq(s, lo + 1, hi) ELSE <<>>

\* s[a:]
SliceFrom(s, a) == Slice(s, a, Len(s))

\* s[:b]
SliceTo(s, b) == Slice(s, 0, b)

RECURSIVE Replace(_, _)
\* s.replace(old, ""): every non-overlapping occurrence, left to right
Replace(s, old) ==
    IF Len(s) < Len(old) THEN s
    ELSE IF SubSeq(s, 1, Len(old)) = old
         THEN Replace(SubSeq(s, Len(old) + 1, Len(s)), old)
         ELSE <<Head(s)>> \o Replace(Tail(s), old)

IsSpace(c) == c \in {" ", "\n", "\t"}

RECURSIVE LStrip(_)
LStrip(s) == IF s # <<>> /\ IsSpace(Head(s)) THEN LStrip(Tail(s)) ELSE s

RECURSIVE RStrip(_)
RStrip(s) ==
    IF s # <<>> /\ IsSpace(s[Len(s)]) THEN RStrip(SubSeq(s, 1, Len(s) - 1)) ELSE s

\* s.strip()
Strip(s) == RStrip(LStrip(s))

\* x if x else None
OrNone(s) == IF s = <<>> THEN None ELSE s

\* remaining.replace(answer_start, "").replace(answer_end, "")
CleanAnswerTags(s) == Replace(Replace(s, answer_start), answer_end)

----------------------------------------------------------------------------
(* extract_reasoning_content: the full-text extractor *)

\* lines 89-110 with line 96's strip() left out
ThinkClosedBranchNoStrip(text) ==
    LET start_idx == Find(text, think_start) + Len(think_start)
        end_idx   == Find(text, think_end)
        reasoning == Strip(Slice(text, start_idx, end_idx))
        remaining == SliceFrom(text, end_idx + Len(think_end))
        answer    ==
            IF In(answer_start, remaining) /\ In(answer_end, remaining)
            THEN LET answer_start_idx == Find(remaining, answer_start) + Len(answer_start)
                     answer_end_idx   == Find(remaining, answer_end)
                 IN  Strip(Slice(remaining, answer_start_idx, answer_end_idx))
            ELSE IF In(answer_start, remaining)
            THEN LET answer_start_idx == Find(remaining, answer_start) + Len(answer_start)
                 IN  Strip(SliceFrom(remaining, answer_start_idx))
            ELSE remaining
    IN  [reasoning_content |-> reasoning, answer_content |-> answer]

\* lines 89-110: think_start and think_end both present
ThinkClosedBranch(text) ==
    LET start_idx == Find(text, think_start) + Len(think_start)
        end_idx   == Find(text, think_end)
        reasoning == Strip(Slice(text, start_idx, end_idx))
        remaining == Strip(SliceFrom(text, end_idx + Len(think_end)))
        answer    ==
            IF In(answer_start, remaining) /\ In(answer_end, remaining)
            THEN LET answer_start_idx == Find(remaining, answer_start) + Len(answer_start)
                     answer_end_idx   == Find(remaining, answer_end)
                 IN  Strip(Slice(remaining, answer_start_idx, answer_end_idx))
            ELSE IF In(answer_start, remaining)
            THEN LET answer_start_idx == Find(remaining, answer_start) + Len(answer_start)
                 IN  Strip(SliceFrom(remaining, answer_start_idx))
            ELSE remaining
    IN  [reasoning_content |-> reasoning, answer_content |-> answer]

\* lines 112-115 with line 115's strip() left out
ThinkOpenBranchNoStrip(text) ==
    LET start_idx == Find(text, think_start) + Len(think_start)
    IN  [reasoning_content |-> SliceFrom(text, start_idx),
         answer_content    |-> None]

\* lines 112-115: thinking started but not ended
ThinkOpenBranch(text) ==
    LET start_idx == Find(text, think_start) + Len(think_start)
    IN  [reasoning_content |-> Strip(SliceFrom(text, start_idx)),
         answer_content    |-> None]

\* lines 117-130 with the answer cut at the last answer_end (rfind for find)
NoThinkBranchLastEnd(text) ==
    IF In(answer_start, text) /\ In(answer_end, text)
    THEN LET answer_start_idx == Find(text, answer_start) + Len(answer_start)
             answer_end_idx   == RFind(text, answer_end)
         IN  [reasoning_content |-> None,
              answer_content    |-> Strip(Slice(text, answer_start_idx, answer_end_idx))]
    ELSE IF In(answer_start, text)
    THEN LET answer_start_idx == Find(text, answer_start) + Len(answer_start)
         IN  [reasoning_content |-> None,
              answer_content    |-> Strip(SliceFrom(text, answer_start_idx))]
    ELSE [reasoning_content |-> None, answer_content |-> Strip(text)]

\* lines 117-130 taking the text before a lone think_end as reasoning
NoThinkBranchLoneEnd(text) ==
    IF In(think_end, text)
    THEN [reasoning_content |-> Strip(SliceTo(text, Find(text, think_end))),
          answer_content    |-> Strip(SliceFrom(text, Find(text, think_end)
                                                           + Len(think_end)))]
    ELSE IF In(answer_start, text) /\ In(answer_end, text)
    THEN LET answer_start_idx == Find(text, answer_start) + Len(answer_start)
             answer_end_idx   == Find(text, answer_end)
         IN  [reasoning_content |-> None,
              answer_content    |-> Strip(Slice(text, answer_start_idx, answer_end_idx))]
    ELSE IF In(answer_start, text)
    THEN LET answer_start_idx == Find(text, answer_start) + Len(answer_start)
         IN  [reasoning_content |-> None,
              answer_content    |-> Strip(SliceFrom(text, answer_start_idx))]
    ELSE [reasoning_content |-> None, answer_content |-> Strip(text)]

\* lines 117-130: no think_start in the text
NoThinkBranch(text) ==
    IF In(answer_start, text) /\ In(answer_end, text)
    THEN LET answer_start_idx == Find(text, answer_start) + Len(answer_start)
             answer_end_idx   == Find(text, answer_end)
         IN  [reasoning_content |-> None,
              answer_content    |-> Strip(Slice(text, answer_start_idx, answer_end_idx))]
    ELSE IF In(answer_start, text)
    THEN LET answer_start_idx == Find(text, answer_start) + Len(answer_start)
         IN  [reasoning_content |-> None,
              answer_content    |-> Strip(SliceFrom(text, answer_start_idx))]
    ELSE [reasoning_content |-> None, answer_content |-> Strip(text)]

\* lines 85-138 with lines 133-136 (empty string to None) left out
ExtractReasoningContentKeepEmpty(text) ==
    IF In(think_start, text) /\ In(think_end, text)
    THEN ThinkClosedBranch(text)
    ELSE IF In(think_start, text)
    THEN ThinkOpenBranch(text)
    ELSE NoThinkBranch(text)

\* lines 85-138: the classification and the empty-to-None normalisation
ExtractReasoningContent(text) ==
    LET r == IF In(think_start, text) /\ In(think_end, text)
             THEN ThinkClosedBranch(text)
             ELSE IF In(think_start, text)
             THEN ThinkOpenBranch(text)
             ELSE NoThinkBranch(text)
    IN  [reasoning_content |-> IF r.reasoning_content = <<>> THEN None
                               ELSE r.reasoning_content,
         answer_content    |-> IF r.answer_content = <<>> THEN None
                               ELSE r.answer_content]

----------------------------------------------------------------------------
(* The tokenizer behind self.model_tokenizer: the markers are ordinary text, *)
(* so a marker may be one token or several; id 1 is a special token.        *)

Vocab ==
    << <<"<", "e", "o", "s", ">">>,
       think_start, think_end, answer_start, answer_end,
       <<"<", "/", "t", "h">>, <<"i", "n", "k", ">">>,
       <<"<", "a", "n">>, <<"s", "w", "e", "r", ">">>,
       <<"a">>, <<" ">>, <<"<">>, <<"/">>, <<">">>,
       <<"t">>, <<"h">>, <<"i">>, <<"n">>, <<"k">>,
       <<"s">>, <<"w">>, <<"e">>, <<"r">> >>

SpecialIds == {1}

RECURSIVE Decode(_)
\* model_tokenizer.decode(ids, skip_special_tokens=True)
Decode(ids) ==
    IF ids = <<>> THEN <<>>
    ELSE (IF Head(ids) \in SpecialIds THEN <<>> ELSE Vocab[Head(ids)])
         \o Decode(Tail(ids))

\* the ordinary tokens that are a prefix of text
PrefixTokens(text) ==
    { i \in (1..Len(Vocab)) \ SpecialIds :
        /\ Len(Vocab[i]) <= Len(text)
        /\ SubSeq(text, 1, Len(Vocab[i])) = Vocab[i] }

RECURSIVE Encode(_)
\* model_tokenizer.encode(text, add_special_tokens=False): longest match
\* first; a character outside the vocabulary is dropped
Encode(text) ==
    IF text = <<>> THEN <<>>
    ELSE IF PrefixTokens(text) = {} THEN Encode(Tail(text))
    ELSE LET t == CHOOSE i \in PrefixTokens(text) :
                      \A j \in PrefixTokens(text) : Len(Vocab[j]) <= Len(Vocab[i])
         IN  <<t>> \o Encode(SubSeq(text, Len(Vocab[t]) + 1, Len(text)))

----------------------------------------------------------------------------
(* The token-level helpers *)

\* lines 47-52
IsReasoningEnd(ids) ==
    LET text == Decode(ids)
    IN  In(think_end, text)

\* text.split(sep, 1) of a text that contains sep
SplitOnce(text, sep) ==
    << SliceTo(text, Find(text, sep)), SliceFrom(text, Find(text, sep) + Len(sep)) >>

\* lines 54-70 with line 66 (removing the answer tags) left out
ExtractContentIdsKeepTags(ids) ==
    LET text == Decode(ids)
    IN  IF In(think_end, text)
        THEN LET parts == SplitOnce(text, think_end)
             IN  IF Len(parts) > 1
                 THEN Encode(parts[2])
                 ELSE <<>>
        ELSE <<>>

\* lines 54-70
ExtractContentIds(ids) ==
    LET text == Decode(ids)
    IN  IF In(think_end, text)
        THEN LET parts == SplitOnce(text, think_end)
             IN  IF Len(parts) > 1
                 THEN Encode(CleanAnswerTags(parts[2]))
                 ELSE <<>>
        ELSE <<>>

----------------------------------------------------------------------------
(* extract_reasoning_content_streaming: the streaming extractor *)

\* the return value None of a streaming call
NoUpdate == [kind |-> "None", reasoning_content |-> None, content |-> None]

\* DeltaMessage(reasoning_content=r, content=c); an omitted keyword is None
DeltaMessage(r, c) == [kind |-> "DeltaMessage", reasoning_content |-> r, content |-> c]

\* lines 161-206 with think_start looked for in the delta at line 162
StreamInitialDeltaOnly(self, delta) ==
    IF In(think_start, delta)
    THEN IF In(think_end, delta)
         THEN LET think_start_idx == Find(delta, think_start)
                  think_end_idx   == Find(delta, think_end)
              IN  IF think_start_idx < think_end_idx
                  THEN LET reasoning == Slice(delta, think_start_idx + Len(think_start),
                                              think_end_idx)
                           remaining == CleanAnswerTags(
                                            SliceFrom(delta, think_end_idx + Len(think_end)))
                       IN  [self |-> [self EXCEPT !.current_state = "content",
                                                  !.thinking_complete = TRUE],
                            ret  |-> DeltaMessage(OrNone(reasoning), OrNone(remaining))]
                  ELSE [self |-> [self EXCEPT !.current_state = "thinking"],
                        ret  |-> NoUpdate]
         ELSE IF In(think_start, delta)
              THEN LET idx == Find(delta, think_start) + Len(think_start)
                       reasoning == SliceFrom(delta, idx)
                   IN  [self |-> [self EXCEPT !.current_state = "thinking"],
                        ret  |-> DeltaMessage(OrNone(reasoning), None)]
              ELSE [self |-> [self EXCEPT !.current_state = "thinking"],
                    ret  |-> DeltaMessage(delta, None)]
    ELSE IF In(answer_start, delta)
    THEN [self |-> [self EXCEPT !.current_state = "content"],
          ret  |-> DeltaMessage(None, OrNone(CleanAnswerTags(delta)))]
    ELSE IF delta # <<>>
    THEN [self |-> self, ret |-> DeltaMessage(None, delta)]
    ELSE [self |-> self, ret |-> NoUpdate]

\* lines 161-206 with answer_start looked for in the buffer at line 197
StreamInitialAnswerInBuffer(self, delta) ==
    IF In(think_start, self.buffer)
    THEN IF In(think_end, delta)
         THEN LET think_start_idx == Find(delta, think_start)
                  think_end_idx   == Find(delta, think_end)
              IN  IF think_start_idx < think_end_idx
                  THEN LET reasoning == Slice(delta, think_start_idx + Len(think_start),
                                              think_end_idx)
                           remaining == CleanAnswerTags(
                                            SliceFrom(delta, think_end_idx + Len(think_end)))
                       IN  [self |-> [self EXCEPT !.current_state = "content",
                                                  !.thinking_complete = TRUE],
                            ret  |-> DeltaMessage(OrNone(reasoning), OrNone(remaining))]
                  ELSE [self |-> [self EXCEPT !.current_state = "thinking"],
                        ret  |-> NoUpdate]
         ELSE IF In(think_start, delta)
              THEN LET idx == Find(delta, think_start) + Len(think_start)
                       reasoning == SliceFrom(delta, idx)
                   IN  [self |-> [self EXCEPT !.current_state = "thinking"],
                        ret  |-> DeltaMessage(OrNone(reasoning), None)]
              ELSE [self |-> [self EXCEPT !.current_state = "thinking"],
                    ret  |-> DeltaMessage(delta, None)]
    ELSE IF In(answer_start, self.buffer)
    THEN [self |-> [self EXCEPT !.current_state = "content"],
          ret  |-> DeltaMessage(None, OrNone(CleanAnswerTags(delta)))]
    ELSE IF delta # <<>>
    THEN [self |-> self, ret |-> DeltaMessage(None, delta)]
    ELSE [self |-> self, ret |-> NoUpdate]

\* lines 161-206: self is the instance after line 158 (buffer = current_text)
StreamInitial(self, delta) ==
    IF In(think_start, self.buffer)
    THEN IF In(think_end, delta)
         THEN LET think_start_idx == Find(delta, think_start)
                  think_end_idx   == Find(delta, think_end)
              IN  IF think_start_idx < think_end_idx
                  THEN LET reasoning == Slice(delta, think_start_idx + Len(think_start),
                                              think_end_idx)
                           remaining == CleanAnswerTags(
                                            SliceFrom(delta, think_end_idx + Len(think_end)))
                       IN  [self |-> [self EXCEPT !.current_state = "content",
                                                  !.thinking_complete = TRUE],
                            ret  |-> DeltaMessage(OrNone(reasoning), OrNone(remaining))]
                  ELSE [self |-> [self EXCEPT !.current_state = "thinking"],
                        ret  |-> NoUpdate]
         ELSE IF In(think_start, delta)
              THEN LET idx == Find(delta, think_start) + Len(think_start)
                       reasoning == SliceFrom(delta, idx)
                   IN  [self |-> [self EXCEPT !.current_state = "thinking"],
                        ret  |-> DeltaMessage(OrNone(reasoning), None)]
              ELSE [self |-> [self EXCEPT !.current_state = "thinking"],
                    ret  |-> DeltaMessage(delta, None)]
    ELSE IF In(answer_start, delta)
    THEN [self |-> [self EXCEPT !.current_state = "content"],
          ret  |-> DeltaMessage(None, OrNone(CleanAnswerTags(delta)))]
    ELSE IF delta # <<>>
    THEN [self |-> self, ret |-> DeltaMessage(None, delta)]
    ELSE [self |-> self, ret |-> NoUpdate]

\* lines 208-228 with line 228 emitting the accumulated buffer
StreamThinkingFromBuffer(self, delta) ==
    IF In(think_end, delta)
    THEN LET idx == Find(delta, think_end)
             reasoning == SliceTo(delta, idx)
             remaining == CleanAnswerTags(SliceFrom(delta, idx + Len(think_end)))
         IN  [self |-> [self EXCEPT !.current_state = "content",
                                    !.thinking_complete = TRUE],
              ret  |-> DeltaMessage(OrNone(reasoning), OrNone(remaining))]
    ELSE [self |-> self, ret |-> DeltaMessage(self.buffer, None)]

\* lines 208-228 with line 212 (thinking_complete = True) left out
StreamThinkingNotComplete(self, delta) ==
    IF In(think_end, delta)
    THEN LET idx == Find(delta, think_end)
             reasoning == SliceTo(delta, idx)
             remaining == CleanAnswerTags(SliceFrom(delta, idx + Len(think_end)))
         IN  [self |-> [self EXCEPT !.current_state = "content"],
              ret  |-> DeltaMessage(OrNone(reasoning), OrNone(remaining))]
    ELSE [self |-> self, ret |-> DeltaMessage(delta, None)]

\* lines 208-228 with think_end looked for in the buffer at line 209
StreamThinkingInBuffer(self, delta) ==
    IF In(think_end, self.buffer)
    THEN LET idx == Find(delta, think_end)
             reasoning == SliceTo(delta, idx)
             remaining == CleanAnswerTags(SliceFrom(delta, idx + Len(think_end)))
         IN  [self |-> [self EXCEPT !.current_state = "content",
                                    !.thinking_complete = TRUE],
              ret  |-> DeltaMessage(OrNone(reasoning), OrNone(remaining))]
    ELSE [self |-> self, ret |-> DeltaMessage(delta, None)]

\* lines 208-228
StreamThinking(self, delta) ==
    IF In(think_end, delta)
    THEN LET idx == Find(delta, think_end)
             reasoning == SliceTo(delta, idx)
             remaining == CleanAnswerTags(SliceFrom(delta, idx + Len(think_end)))
         IN  [self |-> [self EXCEPT !.current_state = "content",
                                    !.thinking_complete = TRUE],
              ret  |-> DeltaMessage(OrNone(reasoning), OrNone(remaining))]
    ELSE [self |-> self, ret |-> DeltaMessage(delta, None)]

\* lines 230-237 with a new think_start reopening the thinking phase
StreamContentRethink(self, delta) ==
    LET content == CleanAnswerTags(delta)
    IN  IF In(think_start, delta)
        THEN [self |-> [self EXCEPT !.current_state = "thinking"], ret |-> NoUpdate]
        ELSE IF content # <<>>
        THEN [self |-> self, ret |-> DeltaMessage(None, content)]
        ELSE [self |-> self, ret |-> NoUpdate]

\* lines 230-237 with line 233 (removing the answer tags) left out
StreamContentKeepTags(self, delta) ==
    LET content == delta
    IN  IF content # <<>>
        THEN [self |-> self, ret |-> DeltaMessage(None, content)]
        ELSE [self |-> self, ret |-> NoUpdate]

\* lines 230-237
StreamContent(self, delta) ==
    LET content == CleanAnswerTags(delta)
    IN  IF content # <<>>
        THEN [self |-> self, ret |-> DeltaMessage(None, content)]
        ELSE [self |-> self, ret |-> NoUpdate]

\* lines 157-237 with line 158 appending to the buffer (+= for =)
StreamingCallAppendBuffer(self, current, delta) ==
    LET s1 == [self EXCEPT !.buffer = self.buffer \o current]
    IN  IF s1.current_state = "initial" THEN StreamInitial(s1, delta)
        ELSE IF s1.current_state = "thinking" THEN StreamThinking(s1, delta)
        ELSE IF s1.current_state = "content" THEN StreamContent(s1, delta)
        ELSE [self |-> s1, ret |-> NoUpdate]

\* lines 157-237: one call on the instance self
StreamingCall(self, current, delta) ==
    LET s1 == [self EXCEPT !.buffer = current]
    IN  IF s1.current_state = "initial" THEN StreamInitial(s1, delta)
        ELSE IF s1.current_state = "thinking" THEN StreamThinking(s1, delta)
        ELSE IF s1.current_state = "content" THEN StreamContent(s1, delta)
        ELSE [self |-> s1, ret |-> NoUpdate]

----------------------------------------------------------------------------
(* Inputs *)

\* the text of an absent fragment counts for nothing in a concatenation
Frag(x) == IF x = None THEN <<>> ELSE x

Cat3(x, y, z) == x \o y \o z

\* the deltas a generation hands to the streaming extractor: whole
\* delimiters, think delimiters cut in two, plain text, and chunks holding
\* several (the deltas around the answer tags are in TagDeltas)
Deltas ==
    { <<>>, <<"a">>,
      think_start, think_end, answer_start,
      <<"<", "t", "h">>, <<"i", "n", "k", ">">>, <<"<", "/", "t", "h">>,
      Cat3(think_start, <<"a">>, think_end) \o <<"a">>,
      Cat3(<<"a">>, think_end, <<"a">>),
      think_end \o think_start,
      <<"a">> \o Cat3(answer_start, <<"a">>, answer_end),
      Cat3(<<"a">>, think_start, <<"a">>),
      <<"i", "n", "k", ">">> \o Cat3(<<"a">>, think_end, <<"a">>) }

\* deltas around the answer tags: whole, cut in two, and one tag lying
\* inside the other
TagDeltas ==
    { <<>>, <<"a">>,
      think_start, think_end, answer_start, answer_end,
      <<"<", "a", "n">>, <<"s", "w", "e", "r", ">">>,
      Cat3(<<"<", "a", "n">>, answer_end, <<"s", "w", "e", "r", ">">>),
      Cat3(<<"a">>, answer_start, <<"a">>) \o answer_end }

\* the pieces complete texts are assembled from
TextAtoms == { think_start, think_end, answer_start, answer_end, <<"a">>, <<" ">> }

RECURSIVE Flatten(_)
Flatten(q) == IF q = <<>> THEN <<>> ELSE Head(q) \o Flatten(Tail(q))

Texts == { Flatten(q) : q \in UNION { [1..n -> TextAtoms] : n \in 0..MaxTextAtoms } }

----------------------------------------------------------------------------
(* The streaming instance and its caller *)

\* __init__ (lines 42-45); the caller has produced no text yet
InitStream ==
    /\ current_state = "initial"
    /\ buffer = <<>>
    /\ thinking_complete = FALSE
    /\ current_text = <<>>
    /\ delta_text = <<>>
    /\ ret = NoUpdate
    /\ reasoning_out = <<>>
    /\ content_out = <<>>
    /\ n_calls = 0
    /\ phase_before = "initial"

InitFullIdle ==
    /\ model_output = <<>>
    /\ result = [reasoning_content |-> None, answer_content |-> None]
    /\ pc = "idle"

\* no token-level helper is being called
InitIdsIdle ==
    /\ input_ids = <<>>
    /\ reasoning_end = FALSE
    /\ content_ids = <<>>
    /\ ids_pc = "idle"

\* the caller streams free deltas, not the cuts of one chosen text
InitShapeIdle == shape = [R |-> <<>>, C |-> <<>>, tagged |-> FALSE]

Init == InitStream /\ InitFullIdle /\ InitIdsIdle /\ InitShapeIdle

\* one call extract_reasoning_content_streaming(previous_text, current_text,
\* delta_text, ...) with current_text = previous_text + delta_text
StreamingStep(d) ==
    LET previous_text == current_text
        current == previous_text \o d
        r == StreamingCall([current_state |-> current_state,
                            buffer |-> buffer,
                            thinking_complete |-> thinking_complete],
                           current, d)
    IN  /\ current_text' = current
        /\ delta_text' = d
        /\ current_state' = r.self.current_state
        /\ buffer' = r.self.buffer
        /\ thinking_complete' = r.self.thinking_complete
        /\ ret' = r.ret
        /\ reasoning_out' = reasoning_out \o Frag(r.ret.reasoning_content)
        /\ content_out' = content_out \o Frag(r.ret.content)
        /\ n_calls' = n_calls + 1
        /\ phase_before' = current_state

\* the call with any delta the generation may hand over
ExtractReasoningContentStreaming ==
    /\ n_calls < MaxCalls
    /\ \E d \in Deltas : StreamingStep(d)
    /\ UNCHANGED <<fullVars, idsVars, shape>>

Next == ExtractReasoningContentStreaming

Spec == Init /\ [][Next]_vars

\* the call with a delta from around the answer tags
ExtractReasoningContentStreamingTags ==
    /\ n_calls < MaxCalls
    /\ \E d \in TagDeltas : StreamingStep(d)
    /\ UNCHANGED <<fullVars, idsVars, shape>>

NextTags == ExtractReasoningContentStreamingTags

SpecTags == Init /\ [][NextTags]_vars

----------------------------------------------------------------------------
(* The full-text extractor applied to one complete text *)

InitFull ==
    /\ InitStream
    /\ InitIdsIdle
    /\ InitShapeIdle
    /\ model_output \in Texts
    /\ result = [reasoning_content |-> None, answer_content |-> None]
    /\ pc = "call"

\* extract_reasoning_content(model_output, request)
ExtractReasoningContentCall ==
    /\ pc = "call"
    /\ result' = ExtractReasoningContent(model_output)
    /\ pc' = "done"
    /\ UNCHANGED <<model_output, streamVars, idsVars, shape>>

NextFull == ExtractReasoningContentCall

SpecFull == InitFull /\ [][NextFull]_vars

----------------------------------------------------------------------------
(* One text <think>R</think>C or <think>R</think><answer>C</answer> streamed *)
(* in pieces that never cut a delimiter                                      *)

ShapeParts == { <<>>, <<"a">>, <<"a", "b">> }

Shapes ==
    [R : ShapeParts, C : ShapeParts, tagged : BOOLEAN]
    \cup { [R |-> <<"a", "b", "c">>,
            C |-> <<"a", "n", "s", "w", "e", "r", ":", "x", "y", "z">>,
            tagged |-> FALSE] }

ShapeText(sh) ==
    think_start \o sh.R \o think_end
    \o (IF sh.tagged THEN answer_start \o sh.C \o answer_end ELSE sh.C)

\* offset c of text lies strictly inside no delimiter occurrence
CleanCut(text, c) ==
    \A delim \in {think_start, think_end, answer_start, answer_end} :
        \A i \in 0..Len(text) :
            (i + Len(delim) <= Len(text) /\ SubSeq(text, i + 1, i + Len(delim)) = delim)
                => ~(i < c /\ c < i + Len(delim))

InitCut ==
    /\ InitStream
    /\ InitFullIdle
    /\ InitIdsIdle
    /\ shape \in Shapes

\* the call with the next piece of the text, of any length that ends at a
\* clean cut
ExtractReasoningContentStreamingCut ==
    /\ \E k \in 1..(Len(ShapeText(shape)) - Len(current_text)) :
          /\ CleanCut(ShapeText(shape), Len(current_text) + k)
          /\ StreamingStep(SubSeq(ShapeText(shape), Len(current_text) + 1,
                                  Len(current_text) + k))
    /\ UNCHANGED <<fullVars, idsVars, shape>>

NextCut == ExtractReasoningContentStreamingCut

SpecCut == InitCut /\ [][NextCut]_vars

----------------------------------------------------------------------------
(* The token-level helpers called on an instance in any phase *)

\* the token ids a caller passes: a special token, the markers whole and in
\* halves, and a letter
InputTokenIds == {1, 2, 3, 4, 5, 6, 7, 10}

IdSeqs == UNION { [1..n -> InputTokenIds] : n \in 0..MaxIds }

\* texts that put a fresh instance into each phase with one streaming call
PhaseTexts == { <<>>, think_start, Cat3(think_start, <<"a">>, think_end) \o <<"a">> }

InitIds ==
    /\ \E t \in PhaseTexts :
          LET r == StreamingCall([current_state |-> "initial", buffer |-> <<>>,
                                  thinking_complete |-> FALSE], t, t)
          IN  /\ current_state = r.self.current_state
              /\ buffer = r.self.buffer
              /\ thinking_complete = r.self.thinking_complete
              /\ current_text = t
              /\ delta_text = t
              /\ ret = r.ret
              /\ reasoning_out = Frag(r.ret.reasoning_content)
              /\ content_out = Frag(r.ret.content)
              /\ n_calls = 1
              /\ phase_before = "initial"
    /\ InitFullIdle
    /\ InitShapeIdle
    /\ input_ids \in IdSeqs
    /\ reasoning_end = FALSE
    /\ content_ids = <<>>
    /\ ids_pc = "call"

\* is_reasoning_end(input_ids)
IsReasoningEndCall ==
    /\ ids_pc = "call"
    /\ reasoning_end' = IsReasoningEnd(input_ids)
    /\ ids_pc' = "checked"
    /\ UNCHANGED <<input_ids, content_ids, streamVars, fullVars, shape>>

\* extract_content_ids(input_ids)
ExtractContentIdsCall ==
    /\ ids_pc = "checked"
    /\ content_ids' = ExtractContentIds(input_ids)
    /\ ids_pc' = "done"
    /\ UNCHANGED <<input_ids, reasoning_end, streamVars, fullVars, shape>>

NextIds == IsReasoningEndCall \/ ExtractContentIdsCall

SpecIds == InitIds /\ [][NextIds]_vars

----------------------------------------------------------------------------
(* Vocabulary of the properties, stated without the extractor's own search *)

\* sub occurs in s at the 0-based offset i
OccursAt(sub, s, i) ==
    /\ i + Len(sub) <= Len(s)
    /\ \A k \in 1..Len(sub) : s[i + k] = sub[k]

Occurs(sub, s) == \E i \in 0..Len(s) : OccursAt(sub, s, i)

\* offset of the first occurrence of sub in s (sub occurs in s)
FirstOccurrence(sub, s) ==
    CHOOSE i \in 0..Len(s) :
        OccursAt(sub, s, i) /\ \A j \in 0..(i - 1) : ~OccursAt(sub, s, j)

\* offset just past the first occurrence of sub in s
AfterFirst(sub, s) == FirstOccurrence(sub, s) + Len(sub)

\* s without its leading and trailing whitespace
Trimmed(s) ==
    LET solid == { i \in 1..Len(s) : s[i] \notin {" ", "\n", "\t"} }
    IN  IF solid = {} THEN <<>>
        ELSE SubSeq(s, CHOOSE i \in solid : \A j \in solid : i <= j,
                       CHOOSE i \in solid : \A j \in solid : j <= i)

\* the text strictly between offset a and offset b of s, empty when b <= a
Between(s, a, b) == SubSeq(s, a + 1, b)

\* a text as a returned field: the empty text is returned as absent
Field(s) == IF s = <<>> THEN None ELSE s

RECURSIVE IsSubsequence(_, _)
\* s can be obtained from t by deleting characters
IsSubsequence(s, t) ==
    IF s = <<>> THEN TRUE
    ELSE IF t = <<>> THEN FALSE
    ELSE IF Head(s) = Head(t) THEN IsSubsequence(Tail(s), Tail(t))
    ELSE IsSubsequence(s, Tail(t))

RECURSIVE Removed(_, _)
\* s with every occurrence of tag deleted, first occurrence first
Removed(s, tag) ==
    IF ~Occurs(tag, s) THEN s
    ELSE SubSeq(s, 1, FirstOccurrence(tag, s))
         \o Removed(SubSeq(s, AfterFirst(tag, s) + 1, Len(s)), tag)

\* s with the answer_start occurrences deleted and then the answer_end ones
TagsRemoved(s) == Removed(Removed(s, answer_start), answer_end)

PhaseRank(p) == IF p = "initial" THEN 0 ELSE IF p = "thinking" THEN 1 ELSE 2

\* the answer the full-text rules assign to the remainder rem
AnswerOf(rem) ==
    IF Occurs(answer_start, rem) /\ Occurs(answer_end, rem)
    THEN Between(rem, AfterFirst(answer_start, rem), FirstOccurrence(answer_end, rem))
    ELSE IF Occurs(answer_start, rem)
    THEN Between(rem, AfterFirst(answer_start, rem), Len(rem))
    ELSE rem

\* delimiter-free texts R, A, C of the shapes <think>R</think>...
PlainTexts == { Flatten(q) : q \in UNION { [1..n -> {<<"a">>, <<" ">>}] : n \in 0..2 } }

----------------------------------------------------------------------------
(* C1 *)

\* C1: across the calls on one instance the phase never decreases in the
\* order initial < thinking < content.
C1_PhaseNeverDecreases ==
    [][PhaseRank(current_state') >= PhaseRank(current_state)]_vars

\* a call made in phase content whose delta holds a think_start
C1_Witness ==
    /\ current_state = "content"
    /\ thinking_complete
    /\ Occurs(think_start, delta_text)
    /\ ~Occurs(think_end, delta_text)

----------------------------------------------------------------------------
(* C2 *)

\* C2: for every cut of a text into deltas, the concatenated reasoning
\* fragments equal, up to trimming, the reasoning extract_reasoning_content
\* returns for the accumulated text, and the concatenated content fragments
\* equal, up to trimming, its answer.
C2_StreamingMatchesFullText ==
    n_calls >= 1 =>
        LET full == ExtractReasoningContent(current_text)
        IN  /\ Trimmed(reasoning_out) = Trimmed(Frag(full.reasoning_content))
            /\ Trimmed(content_out) = Trimmed(Frag(full.answer_content))

----------------------------------------------------------------------------
(* C3 *)

\* C3: one streaming call on a fresh instance with the whole text T as its
\* delta returns, up to trimming and reading no update as (absent, absent),
\* the pair extract_reasoning_content returns for T.
C3_SingleDeltaMatchesFullText ==
    n_calls = 1 =>
        LET full == ExtractReasoningContent(delta_text)
        IN  /\ Trimmed(Frag(ret.reasoning_content)) = Trimmed(Frag(full.reasoning_content))
            /\ Trimmed(Frag(ret.content)) = Trimmed(Frag(full.answer_content))

----------------------------------------------------------------------------
(* C4 *)

\* C4: in every call the reasoning fragment followed by the content fragment
\* is a subsequence of that call's delta, and the total length of emitted
\* text never exceeds the total length of the deltas.
C4_FragmentsFromDeltaOnly ==
    /\ IsSubsequence(Frag(ret.reasoning_content) \o Frag(ret.content), delta_text)
    /\ Len(reasoning_out) + Len(content_out) <= Len(current_text)

\* a call with earlier text behind it that emitted both fragments
C4_Witness ==
    /\ n_calls >= 2
    /\ Len(current_text) > Len(delta_text)
    /\ ret.reasoning_content # None
    /\ ret.content # None

----------------------------------------------------------------------------
(* C5 *)

\* C5: a returned update carries text: one of its fragments is present, and
\* no present fragment is the empty string.
C5_UpdateCarriesText ==
    ret.kind = "DeltaMessage" =>
        /\ ret.reasoning_content # None \/ ret.content # None
        /\ ret.reasoning_content # <<>>
        /\ ret.content # <<>>

----------------------------------------------------------------------------
(* C6 *)

\* C6: if think_end occurs in the text accumulated so far, thinking_complete
\* is true.
C6_ThinkEndSeenImpliesComplete ==
    Occurs(think_end, current_text) => thinking_complete

----------------------------------------------------------------------------
(* C7 *)

\* C7: for a text that contains think_start the reasoning is the trimmed text
\* between the first think_start and the first think_end (absent when that is
\* empty), or with no think_end the trimmed text after the first think_start,
\* and then the answer is absent.
C7_ReasoningSpan ==
    (pc = "done" /\ Occurs(think_start, model_output)) =>
        IF Occurs(think_end, model_output)
        THEN result.reasoning_content =
                 Field(Trimmed(Between(model_output,
                                       AfterFirst(think_start, model_output),
                                       FirstOccurrence(think_end, model_output))))
        ELSE /\ result.reasoning_content =
                    Field(Trimmed(Between(model_output,
                                          AfterFirst(think_start, model_output),
                                          Len(model_output))))
             /\ result.answer_content = None

\* an unterminated think block whose reasoning lost surrounding whitespace
C7_Witness ==
    /\ pc = "done"
    /\ Occurs(think_start, model_output)
    /\ ~Occurs(think_end, model_output)
    /\ result.reasoning_content # None
    /\ Len(result.reasoning_content)
         < Len(model_output) - AfterFirst(think_start, model_output)

----------------------------------------------------------------------------
(* C8 *)

\* C8: for a text with think_start and think_end the answer is computed from
\* the text after the first think_end: trimmed, between the first answer_start
\* and first answer_end of it if both occur, after the first answer_start if
\* only that occurs, else the whole remainder; <think>R</think><answer>A</answer>
\* gives (trim R, trim A) and <think>R</think>C gives (trim R, trim C).
C8_AnswerAfterThink ==
    pc = "done" =>
        /\ (Occurs(think_start, model_output) /\ Occurs(think_end, model_output)) =>
              result.answer_content =
                  Field(Trimmed(AnswerOf(
                      Between(model_output, AfterFirst(think_end, model_output),
                              Len(model_output)))))
        /\ \A R \in PlainTexts, A \in PlainTexts :
              /\ model_output = think_start \o R \o think_end
                                   \o answer_start \o A \o answer_end
                   => result = [reasoning_content |-> Field(Trimmed(R)),
                                answer_content    |-> Field(Trimmed(A))]
              /\ model_output = think_start \o R \o think_end \o A
                   => result = [reasoning_content |-> Field(Trimmed(R)),
                                answer_content    |-> Field(Trimmed(A))]

\* a closed think block followed by untagged text with whitespace around it
C8_Witness ==
    /\ pc = "done"
    /\ Occurs(think_start, model_output)
    /\ Occurs(think_end, model_output)
    /\ ~Occurs(answer_start, model_output)
    /\ result.answer_content # None
    /\ Len(result.answer_content)
         < Len(model_output) - AfterFirst(think_end, model_output)

----------------------------------------------------------------------------
(* C9 *)

\* C9: for a text with no think markers the reasoning is absent and the answer
\* is, trimmed, the text between the first answer_start and the first
\* answer_end if both occur, the text after the first answer_start if only
\* that occurs, else the whole text; "<answer>hi</answer>" gives (absent, "hi").
C9_AnswerWithoutThink ==
    pc = "done" =>
        /\ (~Occurs(think_start, model_output) /\ ~Occurs(think_end, model_output)) =>
              /\ result.reasoning_content = None
              /\ result.answer_content = Field(Trimmed(AnswerOf(model_output)))
        /\ \A A \in PlainTexts :
              model_output = answer_start \o A \o answer_end
                 => result = [reasoning_content |-> None,
                              answer_content    |-> Field(Trimmed(A))]

\* an answer block with a second answer_end after it
C9_Witness ==
    /\ pc = "done"
    /\ ~Occurs(think_start, model_output)
    /\ ~Occurs(think_end, model_output)
    /\ Occurs(answer_start, model_output)
    /\ result.answer_content # None
    /\ \E i \in 0..Len(model_output) :
          /\ OccursAt(answer_end, model_output, i)
          /\ i > FirstOccurrence(answer_end, model_output)
          /\ FirstOccurrence(answer_end, model_output)
               > AfterFirst(answer_start, model_output)

----------------------------------------------------------------------------
(* C10 *)

\* a returned field: absent, or a non-empty text with no whitespace at
\* either end
C10_Normalised(f) ==
    \/ f = None
    \/ /\ f # <<>>
       /\ f[1] \notin {" ", "\n", "\t"}
       /\ f[Len(f)] \notin {" ", "\n", "\t"}

\* C10: extract_reasoning_content returns a pair for every text, and neither
\* field is the empty string or has leading or trailing whitespace.
C10_TotalAndNormalised ==
    /\ pc = "call" =>
          DOMAIN ExtractReasoningContent(model_output)
              = {"reasoning_content", "answer_content"}
    /\ pc = "done" => /\ C10_Normalised(result.reasoning_content)
                      /\ C10_Normalised(result.answer_content)

\* a text with both think delimiters and only whitespace besides: both fields
\* come back absent
C10_Witness ==
    /\ pc = "done"
    /\ Occurs(think_start, model_output)
    /\ Occurs(think_end, model_output)
    /\ Len(model_output) > Len(think_start) + Len(think_end)
    /\ result = [reasoning_content |-> None, answer_content |-> None]

----------------------------------------------------------------------------
(* C11 *)

\* the decoded text after its first think_end
C11_AfterThinkEnd(text) == SubSeq(text, AfterFirst(think_end, text) + 1, Len(text))

\* C11 as stated: is_reasoning_end is true exactly when the decoded text
\* contains think_end; extract_content_ids returns the empty sequence exactly
\* when is_reasoning_end is false, and otherwise the encoding of the text
\* after the first think_end with the answer tags removed.
C11_EmptyExactlyWhenNotEnded ==
    ids_pc = "done" =>
        /\ reasoning_end = Occurs(think_end, Decode(input_ids))
        /\ (content_ids = <<>>) <=> ~reasoning_end
        /\ reasoning_end =>
              content_ids = Encode(TagsRemoved(C11_AfterThinkEnd(Decode(input_ids))))

\* C11 (amended): is_reasoning_end is true exactly when the decoded text
\* contains think_end; extract_content_ids returns the empty sequence when
\* is_reasoning_end is false, and otherwise the encoding of the text after
\* the first think_end with the answer tags removed (empty when nothing is
\* left); neither helper changes the streaming state, whatever the phase.
C11_TokenHelpers ==
    /\ [](ids_pc = "done" =>
            /\ reasoning_end = Occurs(think_end, Decode(input_ids))
            /\ ~reasoning_end => content_ids = <<>>
            /\ reasoning_end =>
                  content_ids = Encode(TagsRemoved(C11_AfterThinkEnd(Decode(input_ids)))))
    /\ [][streamVars' = streamVars]_vars

\* ids holding think_end and an answer tag after it, helpers called on an
\* instance that is thinking
C11_Witness ==
    /\ ids_pc = "done"
    /\ current_state = "thinking"
    /\ reasoning_end
    /\ content_ids # <<>>
    /\ Occurs(answer_start, C11_AfterThinkEnd(Decode(input_ids)))

----------------------------------------------------------------------------
(* C12 *)

----------------------------------------------------------------------------
(* C13 *)

\* C13: in phase initial a call whose current text contains think_start and
\* whose delta contains think_end moves to content, sets thinking_complete and
\* emits the text strictly between think_start and think_end as reasoning and
\* the text after think_end, answer tags removed, as content.
C13_WholeBlockInInitial ==
    [][(/\ current_state = "initial"
        /\ Occurs(think_start, current_text')
        /\ Occurs(think_end, delta_text')) =>
          /\ current_state' = "content"
          /\ thinking_complete'
          /\ ret'.kind = "DeltaMessage"
          /\ ret'.reasoning_content =
                 Field(Between(current_text',
                               AfterFirst(think_start, current_text'),
                               Len(current_text) + FirstOccurrence(think_end, delta_text')))
          /\ ret'.content =
                 Field(TagsRemoved(SubSeq(delta_text',
                                          AfterFirst(think_end, delta_text') + 1,
                                          Len(delta_text'))))]_vars

----------------------------------------------------------------------------
(* C14 *)

\* C14: in phase initial a call whose current text contains think_start
\* leaves initial on that call, also when no single delta holds think_start;
\* with no think_end in the delta the reasoning fragment is the delta after
\* its first think_start, or the whole delta when it holds no think_start.
\* So no call ends in initial with think_start in the accumulated text.
C14_ThinkStartLeavesInitial ==
    /\ [](current_state = "initial" => ~Occurs(think_start, current_text))
    /\ [][(current_state = "initial" /\ Occurs(think_start, current_text')) =>
            /\ current_state' # "initial"
            /\ ~Occurs(think_end, delta_text') =>
                  /\ current_state' = "thinking"
                  /\ ret'.kind = "DeltaMessage"
                  /\ ret'.content = None
                  /\ ret'.reasoning_content =
                        IF Occurs(think_start, delta_text')
                        THEN Field(SubSeq(delta_text',
                                          AfterFirst(think_start, delta_text') + 1,
                                          Len(delta_text')))
                        ELSE delta_text']_vars

\* think_start completed by a delta that holds only its second half
C14_Witness ==
    /\ phase_before = "initial"
    /\ current_state = "thinking"
    /\ Occurs(think_start, current_text)
    /\ ~Occurs(think_start, delta_text)
    /\ ret.reasoning_content = delta_text

----------------------------------------------------------------------------
(* C18 *)

\* C18: in phase thinking the phase changes only on a call whose own delta
\* contains think_end; while no delta does, even if think_end occurs in the
\* accumulated text, the phase stays thinking, thinking_complete stays false
\* and every delta is added to the emitted reasoning.
C18_SplitThinkEndKeepsThinking ==
    /\ [][(current_state = "thinking" /\ current_state' # "thinking") =>
            Occurs(think_end, delta_text')]_vars
    /\ [][(current_state = "thinking" /\ ~Occurs(think_end, delta_text')) =>
            /\ current_state' = "thinking"
            /\ thinking_complete' = FALSE
            /\ reasoning_out' = reasoning_out \o delta_text'
            /\ content_out' = content_out]_vars

\* think_end lies in the accumulated text, cut across earlier deltas, and a
\* later delta was still emitted as reasoning
C18_Witness ==
    /\ current_state = "thinking"
    /\ phase_before = "thinking"
    /\ delta_text # <<>>
    /\ Occurs(think_end, SubSeq(current_text, 1, Len(current_text) - Len(delta_text)))
    /\ ret.reasoning_content = delta_text

----------------------------------------------------------------------------
(* C15 *)

\* C15: in phase initial with no think_start in the current text, a delta
\* that contains answer_start moves to content and is emitted, answer tags
\* removed, as content; any other delta keeps phase initial and
\* thinking_complete false, is emitted verbatim as content when non-empty
\* and gives no update when empty.  answer_start is looked for in the delta
\* only.
C15_InitialWithoutThink ==
    [][(current_state = "initial" /\ ~Occurs(think_start, current_text')) =>
          IF Occurs(answer_start, delta_text')
          THEN /\ current_state' = "content"
               /\ ret'.kind = "DeltaMessage"
               /\ ret'.reasoning_content = None
               /\ ret'.content = Field(TagsRemoved(delta_text'))
          ELSE /\ current_state' = "initial"
               /\ thinking_complete' = FALSE
               /\ delta_text' # <<>> =>
                     /\ ret'.kind = "DeltaMessage"
                     /\ ret'.reasoning_content = None
                     /\ ret'.content = delta_text'
               /\ delta_text' = <<>> => ret' = NoUpdate]_vars

\* answer_start lies in the accumulated text, cut across two deltas, and the
\* phase is still initial
C15_Witness ==
    /\ phase_before = "initial"
    /\ current_state = "initial"
    /\ Occurs(answer_start, current_text)
    /\ ret.content = delta_text

----------------------------------------------------------------------------
(* C16 *)

\* C16: once in content, every call leaves the phase and thinking_complete
\* unchanged, emits no reasoning, and emits the delta with the answer tags
\* stripped as content, or no update when that is empty; the emitted content
\* contains no answer_start and no answer_end.
C16_ContentAbsorbing ==
    [][current_state = "content" =>
          /\ current_state' = "content"
          /\ thinking_complete' = thinking_complete
          /\ ret'.reasoning_content = None
          /\ TagsRemoved(delta_text') # <<>> =>
                /\ ret'.kind = "DeltaMessage"
                /\ ret'.content = TagsRemoved(delta_text')
          /\ TagsRemoved(delta_text') = <<>> => ret' = NoUpdate
          /\ ~Occurs(answer_start, Frag(ret'.content))
          /\ ~Occurs(answer_end, Frag(ret'.content))]_vars

----------------------------------------------------------------------------
(* C17 *)

\* C17: a text <think>R</think>C or <think>R</think><answer>A</answer> with
\* delimiter-free R, C, A, streamed in any pieces that cut no delimiter, ends
\* in phase content with the reasoning fragments adding up to R and the
\* content fragments adding up to C (resp. A).
C17_CleanCutsAgree ==
    (n_calls >= 1 /\ current_text = ShapeText(shape)) =>
        /\ current_state = "content"
        /\ reasoning_out = shape.R
        /\ content_out = shape.C

\* the text <think>abc</think>answer:xyz streamed in four deltas, the last
\* being answer:xyz
C17_Witness ==
    /\ shape.R = <<"a", "b", "c">>
    /\ current_text = ShapeText(shape)
    /\ n_calls = 4
    /\ delta_text = shape.C
    /\ current_state = "content"

----------------------------------------------------------------------------
(* C19 *)

\* C19: thinking_complete implies phase content, never goes back to false,
\* and becomes true only on a call whose delta contains think_end (content
\* reached through an answer_start delta leaves it false); after every call
\* the buffer equals that call's current_text.
C19_CompleteFlag ==
    /\ [](thinking_complete => current_state = "content")
    /\ [](buffer = current_text)
    /\ [][thinking_complete => thinking_complete']_vars
    /\ [][(~thinking_complete /\ thinking_complete') =>
            Occurs(think_end, delta_text')]_vars
    /\ [][(/\ current_state = "initial"
           /\ ~Occurs(think_start, current_text')
           /\ Occurs(answer_start, delta_text')) =>
            (current_state' = "content" /\ ~thinking_complete')]_vars

\* content was reached without thinking, and a later delta with think_end
\* left thinking_complete false
C19_Witness ==
    /\ phase_before = "content"
    /\ current_state = "content"
    /\ ~thinking_complete
    /\ Occurs(think_end, delta_text)
    /\ buffer = current_text
    /\ n_calls >= 2

----------------------------------------------------------------------------
(* C20 *)

\* C20 as stated: the full-text extractor returns a reasoning, and a
\* streaming call emits a reasoning fragment, only if the (accumulated) text
\* contains think_start; a text with think_end but no think_start yields no
\* reasoning and keeps think_end inside the answer and the streamed content,
\* although is_reasoning_end is true for it.
C20_LoneThinkEndKept ==
    n_calls >= 1 =>
        LET full == ExtractReasoningContent(current_text)
        IN  /\ full.reasoning_content # None => Occurs(think_start, current_text)
            /\ ret.reasoning_content # None => Occurs(think_start, current_text)
            /\ (Occurs(think_end, current_text) /\ ~Occurs(think_start, current_text)) =>
                  /\ full.reasoning_content = None
                  /\ reasoning_out = <<>>
                  /\ Occurs(think_end, Frag(full.answer_content))
                  /\ Occurs(think_end, content_out)
                  /\ IsReasoningEnd(Encode(current_text))

\* C20 (amended): as stated, except that the full-text answer keeps think_end
\* when the text holds no answer_start; with an answer_start the answer is cut
\* at the answer tags and may leave think_end out.
C20_ReasoningNeedsThinkStart ==
    n_calls >= 1 =>
        LET full == ExtractReasoningContent(current_text)
        IN  /\ full.reasoning_content # None => Occurs(think_start, current_text)
            /\ ret.reasoning_content # None => Occurs(think_start, current_text)
            /\ (Occurs(think_end, current_text) /\ ~Occurs(think_start, current_text)) =>
                  /\ full.reasoning_content = None
                  /\ reasoning_out = <<>>
                  /\ ~Occurs(answer_start, current_text) =>
                        Occurs(think_end, Frag(full.answer_content))
                  /\ Occurs(think_end, content_out)
                  /\ IsReasoningEnd(Encode(current_text))

\* the text a</think>a, which has think_end and neither think_start nor an
\* answer tag, streamed and extracted
C20_Witness ==
    /\ n_calls >= 1
    /\ current_text = <<"a">> \o think_end \o <<"a">>
    /\ ExtractReasoningContent(current_text)
         = [reasoning_content |-> None, answer_content |-> current_text]
    /\ content_out = current_text

====
